---- MODULE Spec2Model ----
(***************************************************************************)
(* A model of app.py: scrape_poetry (fetch, collect, filter, random        *)
(* choice, whitespace clean-up), generate_audio and the part of main that  *)
(* calls them, run by concurrent Streamlit sessions of one process.        *)
(*                                                                         *)
(* A string is a sequence of Unicode code points.  Python's None is the    *)
(* empty tuple and a present value x is the 1-tuple <<x>>.                 *)
(***************************************************************************)
EXTENDS Integers, Sequences, FiniteSets, TLC

\* ------------------------------------------------------------- bounds

\* Elements of one document (in document order).
MaxNodes == 2

\* Width in bits of the abstract state of the global random generator.
RngBits == 2

\* Length of the strings the whitespace clean-up is applied to on its own.
MaxLen == 5

\* Times a session submits the form.
MaxRuns == 1

\* ---------------------------------------------------------- constants

\* len(text) > 20
MinLength == 20

\* re.search(r'[\u0600-\u06FF]', text): the ends of the range
ArabicLo == 1536

ArabicHi == 1791

None == <<>>

Some(x) == <<x>>

\* -------------------------------------------------------------- state

Sessions == {1, 2}

VARIABLES
  site,        \* the pages the typed URLs lead to: any, the samples, or one
  active,      \* the sessions that are open
  pc,          \* where each session's run of main stands
  runs,        \* how often each session has submitted the form
  soup,        \* scrape_poetry: the parsed document, once fetched
  ret,         \* scrape_poetry: what the call returned (or raised)
  entry,       \* the generator's state when the session's call began
  rng,         \* the state of the random module's global generator
  file,        \* the content of 'poem_song.mp3' in the working directory
  audio_file,  \* main: what generate_audio returned
  played,      \* the content st.audio was given
  removed,     \* the content of the file os.remove deleted
  crashed,     \* the exception that ended the session's run, if any
  seed,        \* the argument of the latest random.seed call
  log,         \* the (seed, text) pairs of the seeded calls that extracted
  repeated,    \* whether two calls that extracted had the same seed
  nstr,        \* the string the clean-up is applied to on its own
  nout         \* its successive clean-ups

scrapeVars == <<pc, runs, soup, ret, entry, rng>>

audioVars == <<file, audio_file, played, removed, crashed>>

seedVars == <<seed, log, repeated>>

normVars == <<nstr, nout>>

vars == <<site, active, scrapeVars, audioVars, seedVars, normVars>>

\* ------------------------------------------------------------ strings

\* The code points str.isspace() holds for: what str.strip() strips and
\* what \s matches in a str pattern.
WhitespaceChars ==
  {9, 10, 11, 12, 13, 28, 29, 30, 31, 32, 133, 160, 5760, 8232, 8233, 8239,
   8287, 12288} \cup (8192..8202)

IsSpace(c) == c \in WhitespaceChars

RECURSIVE LStrip(_)
LStrip(s) ==
  IF s = <<>> THEN <<>>
  ELSE IF IsSpace(Head(s)) THEN LStrip(Tail(s))
  ELSE s

RECURSIVE RStrip(_)
RStrip(s) ==
  IF s = <<>> THEN <<>>
  ELSE IF IsSpace(s[Len(s)]) THEN RStrip(SubSeq(s, 1, Len(s) - 1))
  ELSE s

\* str.strip()
Strip(s) == RStrip(LStrip(s))

\* A plausible slip: re.sub(r'\s\s', ' ', s), which halves a run instead of
\* collapsing it.
RECURSIVE ReSubWsPairs(_)
ReSubWsPairs(s) ==
  IF s = <<>> THEN <<>>
  ELSE IF Len(s) >= 2 /\ IsSpace(s[1]) /\ IsSpace(s[2])
       THEN <<32>> \o ReSubWsPairs(SubSeq(s, 3, Len(s)))
  ELSE <<Head(s)>> \o ReSubWsPairs(Tail(s))

\* A plausible slip: re.sub(r' +', ' ', s), which collapses runs of spaces
\* only.
RECURSIVE ReSubSpaces(_)
ReSubSpaces(s) ==
  IF s = <<>> THEN <<>>
  ELSE IF Head(s) = 32 /\ Len(s) >= 2 /\ s[2] = 32 THEN ReSubSpaces(Tail(s))
  ELSE <<Head(s)>> \o ReSubSpaces(Tail(s))

\* re.sub(r'\s+', ' ', s): every maximal run of whitespace becomes one space.
RECURSIVE ReSubWs(_)
ReSubWs(s) ==
  IF s = <<>> THEN <<>>
  ELSE IF IsSpace(Head(s)) THEN <<32>> \o ReSubWs(LStrip(s))
  ELSE <<Head(s)>> \o ReSubWs(Tail(s))

\* The clean-up of the chosen block: collapse, then strip.
Clean(s) == Strip(ReSubWs(s))

\* re.search(r'[\u0600-\u06FF]', text) finds a match.
HasArabic(s) == \E i \in 1..Len(s) : s[i] >= ArabicLo /\ s[i] <= ArabicHi

\* sep.join(strs)
RECURSIVE Join(_, _)
Join(strs, sep) ==
  IF strs = <<>> THEN <<>>
  ELSE IF Len(strs) = 1 THEN strs[1]
  ELSE strs[1] \o sep \o Join(Tail(strs), sep)

Rep(c, n) == [i \in 1..n |-> c]

\* ---------------------------------------------------------- documents

\* What soup.find_all([...]) is asked for.
TextTags == {"p", "div", "span", "blockquote"}

\* The tags of the modelled documents: the four above and one other.
Tags == TextTags \cup {"h1"}

\* Sample strings of the text nodes.
\* Two words in the Arabic block with whitespace runs around and between
\* them: 23 characters once stripped.
Verse ==
  <<10, 32>> \o Rep(1575, 10) \o <<32, 32, 9>> \o Rep(1740, 10) \o <<32>>

\* Exactly 20 characters once stripped, both ends of the Arabic block in it.
Twenty == <<32, ArabicLo>> \o Rep(97, 18) \o <<ArabicHi, 10>>

\* 19 characters, none in the Arabic block: U+05FF and U+0700 lie just
\* outside it.
Latin == <<ArabicLo - 1>> \o Rep(97, 17) \o <<ArabicHi + 1>>

\* One character of the Arabic block.
Letter == <<ArabicHi>>

Texts == {Verse, Twenty, Latin, Letter}

\* A document is the sequence of its elements in document order; an element
\* holds its tag, its nesting depth and the string it starts with.
\* The elements that follow it with a greater depth are its descendants.
Elems == [tag : Tags, depth : 0..(MaxNodes - 1), text : Texts]

WellNested(d) ==
  \/ Len(d) = 0
  \/ /\ d[1].depth = 0
     /\ \A i \in 1..(Len(d) - 1) : d[i + 1].depth <= d[i].depth + 1

Docs == UNION {{d \in [1..n -> Elems] : WellNested(d)} : n \in 0..MaxNodes}

\* The last descendant of element i (i itself when it has none).
SubtreeEnd(d, i) ==
  CHOOSE j \in i..Len(d) :
    /\ \A k \in (i + 1)..j : d[k].depth > d[i].depth
    /\ j = Len(d) \/ d[j + 1].depth <= d[i].depth

\* The strings of elements i..j, in document order.
RECURSIVE StringsFrom(_, _, _)
StringsFrom(d, i, j) ==
  IF i > j THEN <<>>
  ELSE <<d[i].text>> \o StringsFrom(d, i + 1, j)

\* tag.get_text(separator=" ")
GetText(d, i) == Join(StringsFrom(d, i, SubtreeEnd(d, i)), <<32>>)

\* A plausible slip: the length compared with >=.
LongEnoughInclusive(text) == Len(text) >= MinLength

\* len(text) > 20
LongEnough(text) == Len(text) > MinLength

\* A plausible slip: any tag is searched.
IsTextTagAny(tag) == TRUE

\* The tag is one find_all was asked for.
IsTextTag(tag) == tag \in TextTags

\* The loop over soup.find_all([...]) from element i on: the blocks appended.
RECURSIVE CollectFrom(_, _)
CollectFrom(d, i) ==
  IF i > Len(d) THEN <<>>
  ELSE LET text == Strip(GetText(d, i))
       IN  (IF IsTextTag(d[i].tag) /\ LongEnough(text) /\ HasArabic(text)
            THEN <<text>> ELSE <<>>)
           \o CollectFrom(d, i + 1)

CollectBlocks(d) == CollectFrom(d, 1)

\* ------------------------------------------------------- random.choice

\* The global generator of the random module, abstracted to RngBits bits:
\* a full-period congruential step stands for the Mersenne Twister's.
RngMod == 2 ^ RngBits

RngStates == 0..(RngMod - 1)

RngStep(x) == (5 * x + 3) % RngMod

\* n.bit_length()
RECURSIVE BitLength(_)
BitLength(n) == IF n = 0 THEN 0 ELSE 1 + BitLength(n \div 2)

\* Random._randbelow(n): draw bit_length(n) bits until the draw is below n.
RECURSIVE RandBelow(_, _)
RandBelow(x, n) ==
  LET y == RngStep(x)
      r == y \div (2 ^ (RngBits - BitLength(n)))
  IN  IF r < n THEN [r |-> r, rng |-> y] ELSE RandBelow(y, n)

\* A plausible slip: the first block is always taken.
ChoiceFirst(x, seq) == [item |-> seq[1], rng |-> x]

\* A plausible slip: a pick the generator does not decide (it rotates with
\* the results noted so far), so that no seed fixes it.
ChoiceUnseeded(x, seq) ==
  [item |-> seq[(Cardinality(log) % Len(seq)) + 1], rng |-> x]

\* random.choice(seq): the item and the generator's state after the draw.
Choice(x, seq) ==
  LET d == RandBelow(x, Len(seq))
  IN  [item |-> seq[d.r + 1], rng |-> d.rng]

\* ------------------------------------------------------ scrape_poetry

\* What requests.get, raise_for_status and BeautifulSoup can raise.
FetchErrors ==
  {[cls |-> "ConnectionError", msg |-> "Connection refused"],
   [cls |-> "HTTPError", msg |-> "404 Client Error: Not Found"],
   [cls |-> "ParserRejectedMarkup", msg |-> "markup rejected"]}

\* str(e)
Str(e) == e.msg

NoRet == [text |-> None, error |-> None, raised |-> FALSE]

\* return poem_candidate, None
Found(text) == [text |-> Some(text), error |-> None, raised |-> FALSE]

\* A plausible slip: the empty list is reported with no message.
NotFoundSilent == [text |-> None, error |-> None, raised |-> FALSE]

\* return None, "Could not extract Urdu text ..."
NotFound ==
  [text |-> None,
   error |-> Some("Could not extract Urdu text from the page. The site might be dynamic (JavaScript)."),
   raised |-> FALSE]

\* A plausible slip: only HTTP errors are caught, the rest propagates.
OnExceptionNarrow(e) ==
  IF e.cls = "HTTPError"
  THEN [text |-> None, error |-> Some(Str(e)), raised |-> FALSE]
  ELSE [text |-> None, error |-> None, raised |-> TRUE]

\* except Exception as e: return None, str(e)
OnException(e) == [text |-> None, error |-> Some(Str(e)), raised |-> FALSE]

\* Documents with two, one and no qualifying element, for the runs
\* where every page of the full set would be too many.
SamplePages ==
  {<<[tag |-> "div", depth |-> 0, text |-> Letter],
     [tag |-> "p", depth |-> 1, text |-> Verse]>>,
   <<[tag |-> "p", depth |-> 0, text |-> Verse]>>,
   <<[tag |-> "h1", depth |-> 0, text |-> Verse]>>}

Pages ==
  IF site.kind = "any" THEN Docs
  ELSE IF site.kind = "sample" THEN SamplePages
  ELSE {site.page}

\* main: the form is submitted with a URL and a poet name, and
\* scrape_poetry is called.
Submit(s) ==
  /\ s \in active
  /\ pc[s] = "idle"
  /\ runs[s] < MaxRuns
  /\ pc' = [pc EXCEPT ![s] = "fetch"]
  /\ runs' = [runs EXCEPT ![s] = @ + 1]
  /\ soup' = [soup EXCEPT ![s] = None]
  /\ ret' = [ret EXCEPT ![s] = NoRet]
  /\ entry' = [entry EXCEPT ![s] = rng]
  /\ audio_file' = [audio_file EXCEPT ![s] = None]
  /\ played' = [played EXCEPT ![s] = None]
  /\ removed' = [removed EXCEPT ![s] = None]
  /\ UNCHANGED <<site, active, rng, file, crashed, seedVars, normVars>>

\* scrape_poetry, the request and the parse: an exception ends the call in
\* the handler, otherwise the document is there.
Fetch(s) ==
  /\ pc[s] = "fetch"
  /\ \/ \E e \in FetchErrors :
          /\ ret' = [ret EXCEPT ![s] = OnException(e)]
          /\ pc' = [pc EXCEPT ![s] = "returned"]
          /\ soup' = soup
     \/ \E d \in Pages :
          /\ soup' = [soup EXCEPT ![s] = Some(d)]
          /\ pc' = [pc EXCEPT ![s] = "extract"]
          /\ ret' = ret
  /\ UNCHANGED <<site, active, runs, entry, rng, audioVars, seedVars, normVars>>

\* scrape_poetry, from the loop over the tags to the return.
Extract(s) ==
  /\ pc[s] = "extract"
  /\ LET text_blocks == CollectBlocks(soup[s][1])
     IN  IF text_blocks = <<>>
         THEN /\ ret' = [ret EXCEPT ![s] = NotFound]
              /\ rng' = rng
         ELSE LET c == Choice(rng, text_blocks)
              IN  /\ ret' = [ret EXCEPT ![s] = Found(Clean(c.item))]
                  /\ rng' = c.rng
  /\ pc' = [pc EXCEPT ![s] = "returned"]
  /\ UNCHANGED <<site, active, runs, soup, entry, audioVars, seedVars, normVars>>

\* ------------------------------------------- one call of scrape_poetry

InitSessions ==
  /\ pc = [s \in Sessions |-> "idle"]
  /\ runs = [s \in Sessions |-> 0]
  /\ soup = [s \in Sessions |-> None]
  /\ ret = [s \in Sessions |-> NoRet]
  /\ entry = [s \in Sessions |-> rng]
  /\ file = None
  /\ audio_file = [s \in Sessions |-> None]
  /\ played = [s \in Sessions |-> None]
  /\ removed = [s \in Sessions |-> None]
  /\ crashed = [s \in Sessions |-> None]
  /\ seed = None
  /\ log = {}
  /\ repeated = FALSE

InitExtract ==
  /\ site = [kind |-> "any"]
  /\ active = {1}
  /\ rng \in RngStates
  /\ InitSessions
  /\ nstr = <<>>
  /\ nout = <<>>

NextExtract == \E s \in Sessions : Submit(s) \/ Fetch(s) \/ Extract(s)

SpecExtract == InitExtract /\ [][NextExtract]_vars

\* ------------------------------------------ main and generate_audio

\* Python's truth of an optional str (None and "" are false).
TruthyStr(o) == o # None /\ o[1] # ""

\* Python's truth of an optional text (None and the empty text are false).
TruthyText(o) == o # None /\ o[1] # <<>>

\* What gTTS(text=text, lang='ur').save(...) writes: the speech of `text`,
\* written by session s.
Speech(s, text) == [by |-> s, spoken |-> text]

\* main: the branches on what scrape_poetry returned.
Display(s) ==
  /\ pc[s] = "returned"
  /\ ~ret[s].raised
  /\ IF TruthyStr(ret[s].error) THEN pc' = [pc EXCEPT ![s] = "idle"]
     ELSE IF TruthyText(ret[s].text) THEN pc' = [pc EXCEPT ![s] = "synth"]
     ELSE pc' = [pc EXCEPT ![s] = "idle"]
  /\ UNCHANGED <<site, active, runs, soup, ret, entry, rng, audioVars,
                 seedVars, normVars>>

\* generate_audio: the speech is saved to 'poem_song.mp3' and the name
\* returned, or an exception is reported and None returned.
Synth(s) ==
  /\ pc[s] = "synth"
  /\ \/ /\ file' = Some(Speech(s, ret[s].text[1]))
        /\ audio_file' = [audio_file EXCEPT ![s] = Some("poem_song.mp3")]
        /\ pc' = [pc EXCEPT ![s] = "play"]
     \/ /\ file' = file
        /\ audio_file' = [audio_file EXCEPT ![s] = None]
        /\ pc' = [pc EXCEPT ![s] = "idle"]
  /\ UNCHANGED <<site, active, runs, soup, ret, entry, rng, played, removed,
                 crashed, seedVars, normVars>>

\* st.audio(audio_file): the file named is read; a missing file raises.
Play(s) ==
  /\ pc[s] = "play"
  /\ IF file = None
     THEN /\ crashed' = [crashed EXCEPT ![s] = Some("MediaFileStorageError")]
          /\ pc' = [pc EXCEPT ![s] = "idle"]
          /\ played' = played
     ELSE /\ played' = [played EXCEPT ![s] = file]
          /\ pc' = [pc EXCEPT ![s] = "check"]
          /\ crashed' = crashed
  /\ UNCHANGED <<site, active, runs, soup, ret, entry, rng, file, audio_file,
                 removed, seedVars, normVars>>

\* if os.path.exists(audio_file):
CheckExists(s) ==
  /\ pc[s] = "check"
  /\ pc' = [pc EXCEPT ![s] = IF file # None THEN "remove" ELSE "idle"]
  /\ UNCHANGED <<site, active, runs, soup, ret, entry, rng, audioVars,
                 seedVars, normVars>>

\* os.remove(audio_file): a missing file raises FileNotFoundError.
Remove(s) ==
  /\ pc[s] = "remove"
  /\ IF file = None
     THEN /\ crashed' = [crashed EXCEPT ![s] = Some("FileNotFoundError")]
          /\ UNCHANGED <<file, removed>>
     ELSE /\ removed' = [removed EXCEPT ![s] = file]
          /\ file' = None
          /\ crashed' = crashed
  /\ pc' = [pc EXCEPT ![s] = "idle"]
  /\ UNCHANGED <<site, active, runs, soup, ret, entry, rng, audio_file,
                 played, seedVars, normVars>>

\* Two sessions of the one process run main, each on a sample page.
Init ==
  /\ site = [kind |-> "sample"]
  /\ active = Sessions
  /\ rng \in RngStates
  /\ InitSessions
  /\ nstr = <<>>
  /\ nout = <<>>

Next ==
  \E s \in Sessions :
    \/ Submit(s)
    \/ Fetch(s)
    \/ Extract(s)
    \/ Display(s)
    \/ Synth(s)
    \/ Play(s)
    \/ CheckExists(s)
    \/ Remove(s)

Spec == Init /\ [][Next]_vars

\* --------------------------------------- seeded calls of scrape_poetry

\* random.seed(k): the generator's state is a function of k alone.
SeedRng(k) == RngStep(k)

\* random.seed(k), then scrape_poetry is called.
SeededCall(s, k) ==
  /\ s \in active
  /\ pc[s] = "idle"
  /\ rng' = SeedRng(k)
  /\ seed' = Some(k)
  /\ pc' = [pc EXCEPT ![s] = "fetch"]
  /\ soup' = [soup EXCEPT ![s] = None]
  /\ ret' = [ret EXCEPT ![s] = NoRet]
  /\ entry' = [entry EXCEPT ![s] = SeedRng(k)]
  /\ UNCHANGED <<site, active, runs, log, repeated, audioVars, normVars>>

\* The caller notes what the call returned for the seed it set.
Record(s) ==
  /\ pc[s] = "returned"
  /\ log' = IF soup[s] # None
            THEN log \cup {[seed |-> seed[1], text |-> ret[s].text]}
            ELSE log
  /\ repeated' = (repeated \/ (soup[s] # None /\ \E e \in log : e.seed = seed[1]))
  /\ pc' = [pc EXCEPT ![s] = "idle"]
  /\ UNCHANGED <<site, active, runs, soup, ret, entry, rng, seed, audioVars,
                 normVars>>

\* One caller, one document, any seeds in any order.
InitSeeded ==
  /\ site \in {[kind |-> "one", page |-> d] : d \in SamplePages}
  /\ active = {1}
  /\ rng \in RngStates
  /\ InitSessions
  /\ nstr = <<>>
  /\ nout = <<>>

NextSeeded ==
  \E s \in Sessions :
    \/ \E k \in RngStates : SeededCall(s, k)
    \/ Fetch(s)
    \/ Extract(s)
    \/ Record(s)

SpecSeeded == InitSeeded /\ [][NextSeeded]_vars

\* ------------------------------------------- the clean-up on its own

Alphabet == {32, 10, 97, 1575}

Strings == UNION {[1..n -> Alphabet] : n \in 0..MaxLen}

\* poem_candidate = re.sub(r'\s+', ' ', poem_candidate).strip(), applied
\* to the string, then to what it gave.
Normalize ==
  /\ Len(nout) < 2
  /\ nout' = Append(nout, Clean(IF nout = <<>> THEN nstr ELSE nout[Len(nout)]))
  /\ UNCHANGED <<site, active, scrapeVars, audioVars, seedVars, nstr>>

InitNormalize ==
  /\ site = [kind |-> "sample"]
  /\ active = {}
  /\ rng = 0
  /\ InitSessions
  /\ nstr \in Strings
  /\ nout = <<>>

SpecNormalize == InitNormalize /\ [][Normalize]_vars

\* ------------------------------------------------- claims: extraction

\* The stripped text of element i.
NodeText(d, i) == Strip(GetText(d, i))

\* The elements that pass the tag, length and script filters.
Qualifying(d) ==
  {i \in 1..Len(d) :
     LET t == NodeText(d, i)
     IN  /\ d[i].tag \in {"p", "div", "span", "blockquote"}
         /\ Len(t) > 20
         /\ \E k \in 1..Len(t) : t[k] \in 1536..1791}

\* The calls that have returned after the page was fetched and parsed.
Extracted(s) == s \in active /\ pc[s] = "returned" /\ soup[s] # None

\* C1: when some element with one of the four tags has stripped text longer
\* than 20 with a character in U+0600-U+06FF and no exception occurs,
\* scrape_poetry returns (t, None) with t the cleaned text of one such
\* element; a text it returns is never that of anything else.
C1_ReturnsQualifying ==
  \A s \in Sessions :
    Extracted(s) =>
      LET d == soup[s][1]
          Q == Qualifying(d)
      IN  /\ Q # {} =>
               /\ ret[s].error = None
               /\ ret[s].text # None
          /\ ret[s].text # None =>
               \E i \in Q : ret[s].text = Some(Clean(NodeText(d, i)))

\* A qualifying element was chosen from a document that also holds an
\* element whose text is in the Arabic block but whose tag is not searched.
C1_Witness ==
  \E s \in Sessions :
    /\ Extracted(s)
    /\ ret[s].text # None
    /\ \E i, j \in 1..Len(soup[s][1]) :
         /\ i \in Qualifying(soup[s][1])
         /\ soup[s][1][j].tag = "h1"
         /\ soup[s][1][j].text = Verse

\* C2, as the specification states it: with no surviving candidate the
\* diagnostic is exactly "no script-matching text found".
C2_Original ==
  \A s \in Sessions :
    (Extracted(s) /\ Qualifying(soup[s][1]) = {}) =>
      /\ ret[s].text = None
      /\ ret[s].error = Some("no script-matching text found")

\* C2, amended: with no surviving candidate (the empty document included)
\* scrape_poetry returns no text and exactly the diagnostic "Could not
\* extract Urdu text from the page. The site might be dynamic (JavaScript)."
C2_Amended ==
  \A s \in Sessions :
    (Extracted(s) /\ Qualifying(soup[s][1]) = {}) =>
      /\ ret[s].text = None
      /\ ret[s].error =
           Some("Could not extract Urdu text from the page. The site might be dynamic (JavaScript).")

\* The empty document was fetched and the call has returned.
C2_Witness ==
  \E s \in Sessions : Extracted(s) /\ soup[s][1] = <<>> /\ ret[s].error # None

\* C3: a document none of whose searched elements is both longer than 20
\* once stripped and in the Arabic block yields no text and a diagnostic; so
\* does one with no character of the block at all, and one whose searched
\* elements all have stripped length <= 20.  Length 20 is discarded, 21 kept.
C3_NothingQualifies ==
  \A s \in Sessions :
    Extracted(s) =>
      LET d == soup[s][1]
          Searched == {i \in 1..Len(d) : d[i].tag \in {"p", "div", "span", "blockquote"}}
          Nothing == ret[s].text = None /\ ret[s].error # None
      IN  /\ Qualifying(d) = {} => Nothing
          /\ (\A i \in 1..Len(d) : ~HasArabic(d[i].text)) => Nothing
          /\ (\A i \in Searched : Len(NodeText(d, i)) <= 20) => Nothing
          /\ (\E i \in Searched :
                LET t == NodeText(d, i) IN Len(t) = 21 /\ HasArabic(t))
               => ret[s].text # None

\* A searched element of exactly 20 characters in the Arabic block was
\* discarded and nothing was returned.
C3_Witness ==
  \E s \in Sessions :
    /\ Extracted(s)
    /\ ret[s].text = None
    /\ \E i \in 1..Len(soup[s][1]) :
         /\ soup[s][1][i].tag \in TextTags
         /\ Len(NodeText(soup[s][1], i)) = 20
         /\ HasArabic(NodeText(soup[s][1], i))

\* C4: a returned text has no two consecutive whitespace characters and no
\* whitespace at either end.
C4_NoWhitespaceRuns ==
  \A s \in Sessions :
    (s \in active /\ pc[s] = "returned" /\ ret[s].text # None) =>
      LET t == ret[s].text[1]
      IN  /\ \A k \in 1..(Len(t) - 1) : ~(IsSpace(t[k]) /\ IsSpace(t[k + 1]))
          /\ t # <<>> => ~IsSpace(t[1]) /\ ~IsSpace(t[Len(t)])

\* The text returned comes from a block that had whitespace runs.
C4_Witness ==
  \E s \in Sessions : Extracted(s) /\ ret[s].text = Some(Clean(Verse))

\* C6: scrape_poetry never raises: a call ends with (text, None) or
\* (None, diagnostic), and an exception inside it ends it with
\* (None, str(e)).
C6_NeverRaises ==
  \A s \in Sessions :
    (s \in active /\ pc[s] = "returned") =>
      /\ ~ret[s].raised
      /\ \/ ret[s].text # None /\ ret[s].error = None
         \/ ret[s].text = None /\ ret[s].error # None
      /\ soup[s] = None =>
           \E e \in FetchErrors : ret[s].text = None /\ ret[s].error = Some(e.msg)

\* A connection error inside the call came back as its diagnostic.
C6_Witness ==
  \E s \in Sessions :
    /\ s \in active
    /\ pc[s] = "returned"
    /\ soup[s] = None
    /\ ret[s].error = Some("Connection refused")

\* ------------------------------------------------ claims: the clean-up

\* C5: the clean-up is idempotent: applied to its own result it changes
\* nothing.
C5_Idempotent == Len(nout) = 2 => nout[2] = nout[1]

\* A string with whitespace around and a run inside was cleaned twice.
C5_Witness ==
  /\ Len(nout) = 2
  /\ nstr = <<32, 97, 10, 32, 97>>
  /\ nout[1] = <<97, 32, 97>>

\* -------------------------------------------- claims: the random choice

\* C7: calls on one document with the same seed return the same candidate.
C7_SameSeedSameResult ==
  \A a, b \in log : a.seed = b.seed => a.text = b.text

\* Two calls with one seed have extracted from a document with two
\* candidates.
C7_Witness ==
  /\ repeated
  /\ site.kind = "one"
  /\ Cardinality(Qualifying(site.page)) = 2
  /\ \E e \in log : e.text # None

\* C8: no candidate is unreachable: once every seed has been tried on a
\* document, every qualifying element's cleaned text has been returned.
C8_EveryCandidateReturned ==
  (\A k \in RngStates : \E e \in log : e.seed = k) =>
    \A i \in Qualifying(site.page) :
      \E e \in log : e.text = Some(Clean(NodeText(site.page, i)))

\* Every seed was tried on a document with two candidates of different
\* texts, and two different texts came back.
C8_Witness ==
  /\ \A k \in RngStates : \E e \in log : e.seed = k
  /\ Cardinality(Qualifying(site.page)) = 2
  /\ \E a, b \in log : a.text # None /\ b.text # None /\ a.text # b.text

\* ------------------------------------------------- claims: concurrency

\* C9: a call's result is not affected by a call running at the same time:
\* the text returned is the one the call picks when it runs alone, from the
\* generator's state at its start.
C9_NoInterference ==
  \A s \in Sessions :
    (Extracted(s) /\ ret[s].text # None) =>
      ret[s].text =
        Some(Clean(Choice(entry[s], CollectBlocks(soup[s][1])).item))

\* C10: every session's st.audio is given an existing file with the speech
\* its own generate_audio saved, its os.remove deletes only its own file, and
\* no session hits a missing file.
C10_OwnAudioFile ==
  \A s \in Sessions :
    /\ played[s] # None => played[s][1].spoken = ret[s].text[1]
    /\ removed[s] # None => removed[s][1].by = s
    /\ crashed[s] = None

====
